---- MODULE Spec2Model ----
(***************************************************************************)
(* Overwatch Stat Tracker (src/app.py): the rate-limit-aware HTTP client   *)
(* overfast_get, the snapshot store (ensure_snap_file, load_snaps,         *)
(* save_snaps, do_save) and the fetch / save handlers of the script.       *)
(*                                                                         *)
(* Text is a sequence of chunks.  Text typed by the user or sent by the    *)
(* server is spelled one character per chunk, so that strip, replace,      *)
(* isdigit and float act on characters; a literal of the program           *)
(* ("competitive", a column name) is kept as a single chunk.               *)
(* Python values are tagged records: [none |-> TRUE], [num |-> n],         *)
(* [str |-> text].  Floats are modelled by the integers they hold.         *)
(***************************************************************************)
EXTENDS Integers, Sequences, FiniteSets, TLC

VARIABLES
  call,       \* the overfast_get call of the client's own specification
  file,       \* data/snapshots.csv
  now,        \* the clock: time.time() and datetime.now()
  session,    \* st.session_state of every session
  run,        \* the script run of every session that is between load and save
  last,       \* what the run that finished last showed
  committed   \* the successful saves: the session and the number of rows

vars == <<call, file, now, session, run, last, committed>>

appVars == <<file, now, session, run, last, committed>>

----------------------------------------------------------------------------
(* Bounds of the model *)

\* largest retry budget max_retries given to overfast_get
MaxBudget == 7

\* how far the clock runs past its first reading
MaxElapsed == 5

\* successful saves in one behaviour
MaxSaves == 2

\* statistics in the career JSON handed to the normalizer are 0..MaxStat
MaxStat == 3

\* the career JSON handed to the normalizer has at most MaxHeroes heroes
MaxHeroes == 2

----------------------------------------------------------------------------
(* Python values and text *)

None == [none |-> TRUE]

Num(n) == [num |-> n]

Str(s) == [str |-> s]

IsNone(v) == "none" \in DOMAIN v

IsNum(v) == "num" \in DOMAIN v

IsStr(v) == "str" \in DOMAIN v

Min(a, b) == IF a <= b THEN a ELSE b

DecimalValue == [c \in {"0", "1", "2", "3", "4", "5", "6", "7", "8", "9"} |->
                   CASE c = "0" -> 0 [] c = "1" -> 1 [] c = "2" -> 2 [] c = "3" -> 3
                     [] c = "4" -> 4 [] c = "5" -> 5 [] c = "6" -> 6 [] c = "7" -> 7
                     [] c = "8" -> 8 [] c = "9" -> 9]

DecimalChars == DOMAIN DecimalValue

\* characters str.isdigit accepts: the decimal digits and the digits "that need
\* special handling", of which the superscript two stands for the class
DigitChars == DecimalChars \cup {"^2"}

\* str.isdigit: at least one character, and all of them digits
isdigit(s) == Len(s) > 0 /\ \A i \in 1..Len(s) : s[i] \in DigitChars

RECURSIVE DecimalNumber(_)
DecimalNumber(s) ==
  IF s = <<>> THEN 0
  ELSE 10 * DecimalNumber(SubSeq(s, 1, Len(s) - 1)) + DecimalValue[s[Len(s)]]

\* float(s) for a string of digits: the number for decimal digits, ValueError for
\* any other digit character
FloatRaises(s) == \E i \in 1..Len(s) : s[i] \notin DecimalChars

FloatOf(s) == DecimalNumber(s)

----------------------------------------------------------------------------
(* overfast_get: src/app.py lines 42-61 *)

DefaultMaxRetries == 5

InitialDelay == 1

DelayCap == 30

TooManyRequests == 429

\* lines 64 and 72: the paths the script asks for
SummaryPath(player_id) == <<"/players/", player_id, "/summary">>

StatsPath(player_id) == <<"/players/", player_id, "/stats">>

Paths == {SummaryPath(<<"A", "-", "1">>), StatsPath(<<"A", "-", "1">>)}

BaseUrl == "https://overfast-api.tekrop.fr"

UrlOf(path) == <<BaseUrl, path>>

\* Retry-After header values of a 429 answer: no header, "", "0", "45", "-1"
\* and a superscript two
RetryAfterValues ==
  {None, Str(<<>>), Str(<<"0">>), Str(<<"4", "5">>), Str(<<"-", "1">>), Str(<<"^2">>)}

\* JSON bodies of the client's own check; the script's bodies are built below
ProbeBodies == {Str(<<"A">>), Str(<<"B">>)}

StatusCodes == {200, 304, 404, 429, 500}

\* what the transport does with one request: a network failure (requests.get
\* raises), or a response with a status, a Retry-After header and a body that
\* is JSON (json |-> TRUE) or not
Answer(neterr, status, retry_after, json, body) ==
  [neterr |-> neterr, status |-> status, retry_after |-> retry_after,
   json |-> json, body |-> body]

NetworkFailure == Answer(TRUE, 0, None, FALSE, None)

AnswersWith(bodies) ==
  {NetworkFailure}
    \cup {Answer(FALSE, TooManyRequests, h, FALSE, None) : h \in RetryAfterValues}
    \cup {Answer(FALSE, st, None, FALSE, None) : st \in StatusCodes \ {TooManyRequests}}
    \cup {Answer(FALSE, st, None, TRUE, b) : st \in {200, 304}, b \in bodies}

\* Response.raise_for_status raises for a status of 400..599
RaisesForStatus(status) == 400 <= status /\ status < 600

\* Response.ok: the statuses raise_for_status lets through
IsSuccess(status) == ~RaisesForStatus(status)

\* line 51: the status that is retried
IsRateLimitedOrServerError(status) == status = TooManyRequests \/ status >= 500

IsRateLimited(status) == status = TooManyRequests

\* line 56, the condition: the header is there, is not "", and isdigit
UsesRetryAfter(retry_after) ==
  /\ ~IsNone(retry_after)
  /\ retry_after.str # <<>>
  /\ isdigit(retry_after.str)

\* line 56: wait_s
WaitFor(retry_after, delay) ==
  IF UsesRetryAfter(retry_after) THEN FloatOf(retry_after.str) ELSE delay

\* line 59
NextDelayUncapped(delay) == delay * 2

NextDelay(delay) == Min(delay * 2, DelayCap)

\* the state of one call: attempt counts the iterations finished, requests the
\* answers received (one per requests.get), sleeps the time.sleep arguments
NewCall(path, max_retries) ==
  [url |-> UrlOf(path), max_retries |-> max_retries, attempt |-> 0,
   delay |-> InitialDelay, requests |-> <<>>, sleeps |-> <<>>,
   state |-> "loop", error |-> "none", message |-> <<>>, body |-> None]

Raise(c, error) == [c EXCEPT !.state = "raised", !.error = error]

Return(c, body) == [c EXCEPT !.state = "returned", !.body = body]

\* lines 49-59 with the delay doubled only when the wait was the delay
IterateKeepsDelayOnHint(c, ans) ==
  LET c1 == [c EXCEPT !.requests = Append(@, ans)] IN
  IF ans.neterr THEN Raise(c1, "ConnectionError")
  ELSE IF ~IsRateLimited(ans.status) THEN
    IF RaisesForStatus(ans.status) THEN Raise(c1, "HTTPError")
    ELSE IF ~ans.json THEN Raise(c1, "JSONDecodeError")
    ELSE Return(c1, ans.body)
  ELSE IF UsesRetryAfter(ans.retry_after) /\ FloatRaises(ans.retry_after.str)
    THEN Raise(c1, "ValueError")
  ELSE [c1 EXCEPT !.sleeps = Append(@, WaitFor(ans.retry_after, c.delay)),
                  !.delay = IF UsesRetryAfter(ans.retry_after) THEN c.delay
                            ELSE NextDelay(c.delay),
                  !.attempt = c.attempt + 1]

\* lines 49-59: one iteration of the for loop, given the transport's answer
Iterate(c, ans) ==
  LET c1 == [c EXCEPT !.requests = Append(@, ans)] IN
  IF ans.neterr THEN Raise(c1, "ConnectionError")
  ELSE IF ~IsRateLimited(ans.status) THEN
    IF RaisesForStatus(ans.status) THEN Raise(c1, "HTTPError")
    ELSE IF ~ans.json THEN Raise(c1, "JSONDecodeError")
    ELSE Return(c1, ans.body)
  ELSE IF UsesRetryAfter(ans.retry_after) /\ FloatRaises(ans.retry_after.str)
    THEN Raise(c1, "ValueError")
  ELSE [c1 EXCEPT !.sleeps = Append(@, WaitFor(ans.retry_after, c.delay)),
                  !.delay = NextDelay(c.delay),
                  !.attempt = c.attempt + 1]

\* line 48: the loop goes on while attempt < max_retries
LoopContinues(c) == c.attempt < c.max_retries

\* line 61: the loop is over; the message gives max_retries and the URL
GiveUp(c) == [Raise(c, "RateLimited") EXCEPT !.message = <<c.max_retries, c.url>>]

\* overfast_get run to its end against a script of answers
RECURSIVE overfast_get(_, _)
overfast_get(c, script) ==
  IF c.state # "loop" THEN c
  ELSE IF ~LoopContinues(c) THEN GiveUp(c)
  ELSE IF script = <<>> THEN c
  ELSE overfast_get(Iterate(c, Head(script)), Tail(script))

----------------------------------------------------------------------------
(* Text helpers *)

DigitChar == <<"0", "1", "2", "3", "4", "5", "6", "7", "8", "9">>

\* str(n) for a natural number
RECURSIVE Digits(_)
Digits(n) ==
  IF n < 10 THEN <<DigitChar[n + 1]>>
  ELSE Digits(n \div 10) \o <<DigitChar[(n % 10) + 1]>>

IsDecimalText(t) == Len(t) > 0 /\ \A i \in 1..Len(t) : t[i] \in DecimalChars

\* the spelling of a float that holds the integer n: "n.0"
FloatText(n) == Digits(n) \o <<".", "0">>

IsFloatText(t) ==
  /\ Len(t) >= 3
  /\ t[Len(t) - 1] = "."
  /\ t[Len(t)] = "0"
  /\ IsDecimalText(SubSeq(t, 1, Len(t) - 2))

FloatTextValue(t) == DecimalNumber(SubSeq(t, 1, Len(t) - 2))

\* str.strip: leading and trailing blanks removed
RECURSIVE lstrip(_)
lstrip(t) == IF t # <<>> /\ Head(t) = " " THEN lstrip(Tail(t)) ELSE t

RECURSIVE rstrip(_)
rstrip(t) ==
  IF t # <<>> /\ t[Len(t)] = " " THEN rstrip(SubSeq(t, 1, Len(t) - 1)) ELSE t

strip(t) == rstrip(lstrip(t))

\* str.replace(old, new) for single characters
replace(t, old, new) == [i \in 1..Len(t) |-> IF t[i] = old THEN new ELSE t[i]]

\* line 37
battletag_to_player_id(btag) == replace(strip(btag), "#", "-")

\* datetime.now(timezone.utc).isoformat() at clock reading t
isoformat(t) == <<"T">> \o Digits(t)

----------------------------------------------------------------------------
(* Data frames and the CSV file: src/app.py lines 74-102 *)

\* lines 78-93 and 245-249: the snapshot columns, in order
SNAP_COLUMNS ==
  <<"timestamp", "battletag", "player_id", "gamemode", "platform", "hero",
    "games_played", "games_won", "games_lost", "time_played_sec",
    "eliminations", "deaths", "hero_damage_done", "healing_done">>

\* a data frame: its column names and its rows, each row one value per column
DataFrame(columns, rows) == [columns |-> columns, rows |-> rows]

\* pd.DataFrame()
EmptyFrame == DataFrame(<<>>, <<>>)

\* DataFrame.empty
IsEmptyNever(df) == FALSE

IsEmpty(df) == df.columns = <<>> \/ df.rows = <<>>

ColumnSet(df) == {df.columns[i] : i \in 1..Len(df.columns)}

IndexOf(seq, x) == CHOOSE i \in 1..Len(seq) : seq[i] = x

\* the value of column name in a row of df
Cell(df, row, name) == row[IndexOf(df.columns, name)]

\* the file: absent, or a header line and the data lines, every cell a text
NoFile == [exists |-> FALSE, header |-> <<>>, lines |-> <<>>]

CsvFile(header, lines) == [exists |-> TRUE, header |-> header, lines |-> lines]

\* the strings pandas.read_csv reads as missing, among the texts of the model:
\* the empty cell and "NA"
NaTexts == {<<>>, <<"N", "A">>}

\* DataFrame.to_csv of one value: a missing value as the empty cell, a float by
\* its spelling, a string as it is
to_csv_cell(v) ==
  IF IsNone(v) THEN <<>>
  ELSE IF IsNum(v) THEN FloatText(v.num)
  ELSE v.str

\* DataFrame.to_csv(SNAP_FILE, index=False)
to_csv(df) ==
  CsvFile(df.columns,
          [r \in 1..Len(df.rows) |->
             [c \in 1..Len(df.columns) |-> to_csv_cell(df.rows[r][c])]])

\* read_csv infers a column as numeric when every cell that is not missing
\* spells a number
IsNumericColumn(lines, c) ==
  \A r \in 1..Len(lines) : lines[r][c] \in NaTexts \/ IsFloatText(lines[r][c])

read_csv_cell(lines, r, c) ==
  IF lines[r][c] \in NaTexts THEN None
  ELSE IF IsNumericColumn(lines, c) THEN Num(FloatTextValue(lines[r][c]))
  ELSE Str(lines[r][c])

\* pd.read_csv(SNAP_FILE)
read_csv(f) ==
  DataFrame(f.header,
            [r \in 1..Len(f.lines) |->
               [c \in 1..Len(f.header) |-> read_csv_cell(f.lines, r, c)]])

\* lines 74-95: the file as ensure_snap_file leaves it
ensure_snap_file_always(f) == CsvFile(SNAP_COLUMNS, <<>>)

ensure_snap_file(f) == IF f.exists THEN f ELSE CsvFile(SNAP_COLUMNS, <<>>)

\* lines 97-99: the file after the call, and the frame returned
load_snaps_file(f) == ensure_snap_file(f)

load_snaps(f) == read_csv(ensure_snap_file(f))

\* lines 101-102
save_snaps(df) == to_csv(df)

\* df[name] = value: the column is overwritten, or added as the last one
SetColumn(df, name, value) ==
  IF name \in ColumnSet(df)
    THEN DataFrame(df.columns,
                   [r \in 1..Len(df.rows) |->
                      [c \in 1..Len(df.columns) |->
                         IF df.columns[c] = name THEN value ELSE df.rows[r][c]]])
    ELSE DataFrame(Append(df.columns, name),
                   [r \in 1..Len(df.rows) |-> Append(df.rows[r], value)])

\* df[keep] raises KeyError when df lacks a column of keep
SelectRaises(df, keep) == \E c \in 1..Len(keep) : keep[c] \notin ColumnSet(df)

\* df[keep]: the columns of keep, in that order
Select(df, keep) ==
  DataFrame(keep,
            [r \in 1..Len(df.rows) |->
               [c \in 1..Len(keep) |-> Cell(df, df.rows[r], keep[c])]])

\* the frame as it is, no row left out
FilterKeepsAll(df, name, value) == df

\* df[df[name] == value]
Filter(df, name, value) ==
  DataFrame(df.columns, SelectSeq(df.rows, LAMBDA row : Cell(df, row, name) = value))

\* the columns of b that a lacks, in b's order
NewColumns(a, b) == SelectSeq(b.columns, LAMBDA n : n \notin ColumnSet(a))

Reindex(df, columns) ==
  [r \in 1..Len(df.rows) |->
     [c \in 1..Len(columns) |->
        IF columns[c] \in ColumnSet(df) THEN Cell(df, df.rows[r], columns[c])
        ELSE None]]

\* pd.concat([a, b], ignore_index=True): the union of the columns, a's first,
\* and a's rows followed by b's, a missing value where a frame lacks a column
concat(a, b) ==
  LET columns == a.columns \o NewColumns(a, b) IN
  DataFrame(columns, Reindex(a, columns) \o Reindex(b, columns))

----------------------------------------------------------------------------
(* The normalizer: src/app.py lines 104-142 *)

\* JSON values: None, Num, Str and, keeping the order of the keys, a dict as
\* the sequence of its <<key, value>> pairs; a list as the sequence of its items
Dict(pairs) == [dict |-> pairs]

List(items) == [list |-> items]

IsDict(v) == "dict" \in DOMAIN v

Keys(d) == {d.dict[i][1] : i \in 1..Len(d.dict)}

Lookup(d, k) == d.dict[CHOOSE i \in 1..Len(d.dict) : d.dict[i][1] = k][2]

\* float(v) raises for None, a dict, a list and a string that spells no number
FloatFails(v) ==
  ~(IsNum(v) \/ (IsStr(v) /\ (IsDecimalText(v.str) \/ IsFloatText(v.str))))

FloatValue(v) ==
  IF IsNum(v) THEN v.num
  ELSE IF IsDecimalText(v.str) THEN DecimalNumber(v.str)
  ELSE FloatTextValue(v.str)

\* lines 104-113 with 0 for a statistic that is not there
RECURSIVE pluck_num_zero(_, _)
pluck_num_zero(d, keys) ==
  IF keys = <<>>
    THEN IF FloatFails(d) THEN None ELSE Num(FloatValue(d))
  ELSE IF ~IsDict(d) \/ Head(keys) \notin Keys(d) THEN Num(0)
  ELSE pluck_num_zero(Lookup(d, Head(keys)), Tail(keys))

\* lines 104-113
RECURSIVE pluck_num(_, _)
pluck_num(d, keys) ==
  IF keys = <<>>
    THEN IF FloatFails(d) THEN None ELSE Num(FloatValue(d))
  ELSE IF ~IsDict(d) \/ Head(keys) \notin Keys(d) THEN None
  ELSE pluck_num(Lookup(d, Head(keys)), Tail(keys))

RECURSIVE GCD(_, _)
GCD(a, b) == IF b = 0 THEN a ELSE GCD(b, a % b)

\* the float n / d, kept as the fraction in lowest terms
Frac(n, d) == [frac |-> <<n \div GCD(n, d), d \div GCD(n, d)>>]

\* lines 121-129: the columns built per hero and the key path of each
STAT_PATHS ==
  << <<"games_played", << <<"game">>, <<"games_played">> >> >>,
     <<"games_won", << <<"game">>, <<"games_won">> >> >>,
     <<"games_lost", << <<"game">>, <<"games_lost">> >> >>,
     <<"time_played_sec", << <<"game">>, <<"time_played">> >> >>,
     <<"eliminations", << <<"combat">>, <<"eliminations">> >> >>,
     <<"deaths", << <<"combat">>, <<"deaths">> >> >>,
     <<"hero_damage_done", << <<"combat">>, <<"hero_damage_done">> >> >>,
     <<"healing_done", << <<"assists">>, <<"healing_done">> >> >> >>

TABLE_COLUMNS ==
  <<"hero">> \o [i \in 1..Len(STAT_PATHS) |-> STAT_PATHS[i][1]]
    \o <<"winrate", "time_played_min">>

\* lines 119-131: the row of one hero
StatRow(hero_key, h) ==
  <<Str(hero_key)>> \o [i \in 1..Len(STAT_PATHS) |-> pluck_num(h, STAT_PATHS[i][2])]

\* lines 136-138
WinrateNoGuard(won, lost) ==
  IF ~IsNone(won) /\ ~IsNone(lost)
    THEN IF won.num + lost.num = 0 THEN [frac |-> <<0, 0>>]
         ELSE Frac(won.num, won.num + lost.num)
  ELSE None

Winrate(won, lost) ==
  IF ~IsNone(won) /\ ~IsNone(lost) /\ won.num + lost.num > 0
    THEN Frac(won.num, won.num + lost.num)
  ELSE None

\* line 141
SecondsPerMinute == 60

TimePlayedMin(sec) == IF IsNone(sec) THEN None ELSE Frac(sec.num, SecondsPerMinute)

\* career_json.items() raises when the JSON value is no dict
CareerRaises(career_json) == ~IsDict(career_json)

\* lines 115-142
career_to_table(career_json) ==
  LET base == DataFrame(SubSeq(TABLE_COLUMNS, 1, 1 + Len(STAT_PATHS)),
                        [i \in 1..Len(career_json.dict) |->
                           StatRow(career_json.dict[i][1], career_json.dict[i][2])])
  IN IF career_json.dict = <<>> THEN EmptyFrame
     ELSE DataFrame(TABLE_COLUMNS,
            [i \in 1..Len(base.rows) |->
               LET row == base.rows[i] IN
               row \o <<Winrate(Cell(base, row, "games_won"), Cell(base, row, "games_lost")),
                        TimePlayedMin(Cell(base, row, "time_played_sec"))>>])

----------------------------------------------------------------------------
(* The script: src/app.py lines 146-268 *)

\* line 183
cooldown == 5

AllHeroes == <<"all-heroes">>

\* lines 148-150: what the user has put into the widgets when a handler reads
\* them.  The hero filter of line 151 only goes into the request parameters
\* and is left out.
Widget(battletag, gamemode, platform) ==
  [battletag |-> battletag, gamemode |-> gamemode, platform |-> platform]

Widgets ==
  {Widget(<<" ", "A", "#", "1">>, <<"competitive">>, <<>>),
   Widget(<<"N", "A">>, <<"quickplay">>, <<"pc">>),
   Widget(<<>>, <<"competitive">>, <<"console">>)}

\* the transport's bodies: the summary of a player, and career statistics
SummaryBody(player_id) == Dict(<< <<<<"username">>, Str(player_id)>> >>)

HeroJson(played, won, lost, time) ==
  Dict(<< <<<<"game">>, Dict(<< <<<<"games_played">>, Num(played)>>,
                               <<<<"games_won">>, Num(won)>>,
                               <<<<"games_lost">>, Num(lost)>>,
                               <<<<"time_played">>, Num(time)>> >>)>>,
          <<<<"combat">>, Dict(<< <<<<"eliminations">>, Num(played)>>,
                                 <<<<"deaths">>, Num(lost)>> >>)>> >>)

CareerEmpty == Dict(<<>>)

CareerFull ==
  Dict(<< <<AllHeroes, HeroJson(4, 3, 1, 120)>>,
          <<<<"ana">>, Dict(<< <<<<"game">>, Dict(<< <<<<"games_won">>, Str(<<"x">>)>>,
                                                     <<<<"games_lost">>, Num(0)>> >>)>>,
                              <<<<"combat">>, Num(5)>> >>)>>,
          <<<<"mercy">>, None>> >>)

CareerNoAggregate == Dict(<< <<<<"ana">>, HeroJson(0, 0, 0, 60)>> >>)

CareerList == List(<<>>)

StatsBodies == {CareerEmpty, CareerFull, CareerNoAggregate, CareerList}

\* the transports the script meets: the call's last answer at once, five 429
\* with Retry-After "0", and a 429 whose Retry-After is a superscript digit.
\* None of them makes the call sleep for long: time that passes in a fetch is
\* time the user waits (Wait), as far as the rest of the script can tell.
A429(retry_after) == Answer(FALSE, TooManyRequests, retry_after, FALSE, None)

Terminals(bodies) ==
  {NetworkFailure, Answer(FALSE, 500, None, FALSE, None),
   Answer(FALSE, 200, None, FALSE, None)}
    \cup {Answer(FALSE, 200, None, TRUE, b) : b \in bodies}

AppScripts(bodies) ==
  {<<t>> : t \in Terminals(bodies)}
    \cup {[i \in 1..DefaultMaxRetries |-> A429(Str(<<"0">>))], <<A429(Str(<<"^2">>))>>}

\* lines 63-64 and 66-72, through the memo wrappers of lines 164-170, which
\* are taken to miss: every call goes to the transport
SummaryCalls(player_id) ==
  {overfast_get(NewCall(SummaryPath(player_id), DefaultMaxRetries), sc) :
     sc \in AppScripts({SummaryBody(player_id)})}

StatsCalls(player_id) ==
  {overfast_get(NewCall(StatsPath(player_id), DefaultMaxRetries), sc) :
     sc \in AppScripts(StatsBodies)}

RECURSIVE Sum(_)
Sum(seq) == IF seq = <<>> THEN 0 ELSE Head(seq) + Sum(Tail(seq))

\* lines 172-177: the session state of a new session; last_fetch is the 0.0 of
\* line 181
NewSession ==
  [summary |-> None, table |-> EmptyFrame, pid |-> None, last_fetch |-> 0]

\* a script run that a save button started, between its load (line 160) and
\* its handler: the button and the snaps loaded
IdleRun == [button |-> "none", snaps |-> EmptyFrame]

\* what a run showed (st.success, st.warning, st.error) and the requests it made
Report(s, message, requests) == [by |-> s, message |-> message, requests |-> requests]

NoReport == Report(0, "none", 0)

OneSession == {1}

TwoSessions == {1, 2}

\* the clock reads at least the cooldown: time.time() counts from 1970
AppInit(sessions) ==
  /\ now = cooldown
  /\ session = [s \in sessions |-> NewSession]
  /\ run = [s \in sessions |-> IdleRun]
  /\ last = NoReport
  /\ committed = <<>>

\* lines 153-156: the buttons that save
SaveButtons == {"save_all", "save_view"}

\* a run that a save button started reads the file (line 160); another
\* session may run before its handler does
StartSave(s, button) ==
  /\ run[s].button = "none"
  /\ file' = load_snaps_file(file)
  /\ run' = [run EXCEPT ![s] = [button |-> button, snaps |-> load_snaps(file)]]
  /\ UNCHANGED <<call, now, session, last, committed>>

EndRun(s, report) ==
  /\ run' = [run EXCEPT ![s] = IdleRun]
  /\ last' = report

\* a run no button started (a widget was changed): the load of line 160 and
\* nothing else
Rerun(s) ==
  /\ run[s].button = "none"
  /\ file' = load_snaps_file(file)
  /\ EndRun(s, Report(s, "none", 0))
  /\ UNCHANGED <<call, now, session, committed>>

\* line 186
ThrottledInclusive(ss, t) == t - ss.last_fetch <= cooldown

Throttled(ss, t) == t - ss.last_fetch < cooldown

\* lines 201-203: the session state a successful fetch leaves
Commit(ss, w, summary, stats) ==
  [ss EXCEPT !.summary = summary.body,
             !.table = career_to_table(stats.body),
             !.pid = Str(battletag_to_player_id(w.battletag))]

StatsFailed(stats) == stats.state = "raised" \/ CareerRaises(stats.body)

\* lines 195-208 with the summary stored as soon as it is there
FetchResultsEager(ss, w) ==
  LET pid == battletag_to_player_id(w.battletag) IN
  {<<ss, "fetch_failed", Len(c1.requests), Sum(c1.sleeps)>> :
     c1 \in {c \in SummaryCalls(pid) : c.state = "raised"}}
  \cup
  {<<IF StatsFailed(c[2]) THEN [ss EXCEPT !.summary = c[1].body]
     ELSE Commit(ss, w, c[1], c[2]),
     IF StatsFailed(c[2]) THEN "fetch_failed" ELSE "fetched",
     Len(c[1].requests) + Len(c[2].requests),
     Sum(c[1].sleeps) + Sum(c[2].sleeps)>> :
     c \in {c1 \in SummaryCalls(pid) : c1.state = "returned"} \X StatsCalls(pid)}

\* lines 195-208: the two calls and what they leave, as
\* <<session state, message, requests made, time slept>>
FetchResults(ss, w) ==
  LET pid == battletag_to_player_id(w.battletag) IN
  {<<ss, "fetch_failed", Len(c1.requests), Sum(c1.sleeps)>> :
     c1 \in {c \in SummaryCalls(pid) : c.state = "raised"}}
  \cup
  {<<IF StatsFailed(c[2]) THEN ss ELSE Commit(ss, w, c[1], c[2]),
     IF StatsFailed(c[2]) THEN "fetch_failed" ELSE "fetched",
     Len(c[1].requests) + Len(c[2].requests),
     Sum(c[1].sleeps) + Sum(c[2].sleeps)>> :
     c \in {c1 \in SummaryCalls(pid) : c1.state = "returned"} \X StatsCalls(pid)}

\* a run the fetch button started: the load of line 160 and lines 179-208
Fetch(s, w) ==
  /\ run[s].button = "none"
  /\ file' = load_snaps_file(file)
  /\ LET ss == session[s]
         started == [ss EXCEPT !.last_fetch = now]
     IN
     IF Throttled(ss, now)
       THEN /\ EndRun(s, Report(s, "throttled", 0))
            /\ UNCHANGED <<session, now>>
     ELSE IF strip(w.battletag) = <<>>
       THEN /\ session' = [session EXCEPT ![s] = started]
            /\ EndRun(s, Report(s, "enter_battletag", 0))
            /\ UNCHANGED now
     ELSE \E res \in FetchResults(started, w) :
            /\ now + res[4] <= cooldown + MaxElapsed
            /\ now' = now + res[4]
            /\ session' = [session EXCEPT ![s] = res[1]]
            /\ EndRun(s, Report(s, res[2], res[3]))
  /\ UNCHANGED <<call, committed>>

\* lines 233-242 with the clock read once per row
StampedRowByRow(df_to_save, ss, w, t) ==
  LET st == SetColumn(
              SetColumn(
                SetColumn(
                  SetColumn(
                    SetColumn(df_to_save, "timestamp", Str(isoformat(t))),
                    "battletag", Str(w.battletag)),
                  "player_id", ss.pid),
                "gamemode", Str(w.gamemode)),
              "platform", Str(w.platform))
  IN DataFrame(st.columns,
               [r \in 1..Len(st.rows) |->
                  [c \in 1..Len(st.columns) |->
                     IF st.columns[c] = "timestamp" THEN Str(isoformat(t + r - 1))
                     ELSE st.rows[r][c]]])

\* lines 233-242: the copy with the timestamp and the identity columns set
Stamped(df_to_save, ss, w, t) ==
  SetColumn(
    SetColumn(
      SetColumn(
        SetColumn(
          SetColumn(df_to_save, "timestamp", Str(isoformat(t))),
          "battletag", Str(w.battletag)),
        "player_id", ss.pid),
      "gamemode", Str(w.gamemode)),
    "platform", Str(w.platform))

\* lines 233-250: the rows to append
df_out_of(df_to_save, ss, w, t) == Select(Stamped(df_to_save, ss, w, t), SNAP_COLUMNS)

\* line 230
SaveRejected(df_to_save, ss) == IsEmpty(df_to_save) \/ IsNone(ss.pid)

\* line 252
UpdatedFromFile(snaps, f, df_out) == concat(read_csv(f), df_out)

Updated(snaps, f, df_out) == concat(snaps, df_out)

\* lines 229-254
do_save(s, w, df_to_save) ==
  LET ss == session[s]
      df_out == df_out_of(df_to_save, ss, w, now)
  IN
  IF SaveRejected(df_to_save, ss)
    THEN /\ EndRun(s, Report(s, "fetch_first", 0))
         /\ UNCHANGED <<file, committed>>
  ELSE IF SelectRaises(Stamped(df_to_save, ss, w, now), SNAP_COLUMNS)
    THEN /\ EndRun(s, Report(s, "exception", 0))
         /\ UNCHANGED <<file, committed>>
  ELSE /\ Len(committed) < MaxSaves
       /\ file' = save_snaps(Updated(run[s].snaps, file, df_out))
       /\ committed' = Append(committed, [by |-> s, rows |-> Len(df_out.rows)])
       /\ EndRun(s, Report(s, "saved", 0))

\* lines 256-261
SaveAll(s, w) ==
  /\ run[s].button = "save_all"
  /\ IF ~IsEmpty(session[s].table)
       THEN do_save(s, w, Filter(session[s].table, "hero", Str(AllHeroes)))
       ELSE /\ EndRun(s, Report(s, "fetch_first", 0))
            /\ UNCHANGED <<file, committed>>
  /\ UNCHANGED <<call, now, session>>

\* lines 263-268
SaveView(s, w) ==
  /\ run[s].button = "save_view"
  /\ IF ~IsEmpty(session[s].table)
       THEN do_save(s, w, session[s].table)
       ELSE /\ EndRun(s, Report(s, "fetch_first", 0))
            /\ UNCHANGED <<file, committed>>
  /\ UNCHANGED <<call, now, session>>

\* the user waits: just short of the cooldown, or the cooldown
Waits == {cooldown - 1, cooldown}

Wait(d) ==
  /\ now + d <= cooldown + MaxElapsed
  /\ now' = now + d
  /\ UNCHANGED <<call, file, session, run, last, committed>>

Next ==
  \/ \E s \in DOMAIN session, b \in SaveButtons : StartSave(s, b)
  \/ \E s \in DOMAIN session : Rerun(s)
  \/ \E s \in DOMAIN session, w \in Widgets : Fetch(s, w)
  \/ \E s \in DOMAIN session, w \in Widgets : SaveAll(s, w)
  \/ \E s \in DOMAIN session, w \in Widgets : SaveView(s, w)
  \/ \E d \in Waits : Wait(d)

IdleCall == NewCall(SummaryPath(<<>>), 0)

\* one session, the file absent at first
Init == call = IdleCall /\ file = NoFile /\ AppInit(OneSession)

Spec == Init /\ [][Next]_vars

\* two sessions on the same file
TwoInit == call = IdleCall /\ file = NoFile /\ AppInit(TwoSessions)

\* the widget settings the two sessions use: those with a platform chosen
TwoWidgets == {w \in Widgets : w.platform # <<>>}

\* the steps of two sessions that act without waiting in between
TwoNext ==
  \/ \E s \in DOMAIN session, b \in SaveButtons : StartSave(s, b)
  \/ \E s \in DOMAIN session : Rerun(s)
  \/ \E s \in DOMAIN session, w \in TwoWidgets : Fetch(s, w)
  \/ \E s \in DOMAIN session, w \in TwoWidgets : SaveAll(s, w)
  \/ \E s \in DOMAIN session, w \in TwoWidgets : SaveView(s, w)

TwoSpec == TwoInit /\ [][TwoNext]_vars

\* one session, and a file that another program left: two columns, one line
ForeignFile == CsvFile(<<"hero", "timestamp">>, << <<<<"ana">>, <<"T", "1">>>> >>)

ForeignInit == call = IdleCall /\ file = ForeignFile /\ AppInit(OneSession)

ForeignSpec == ForeignInit /\ [][Next]_vars

----------------------------------------------------------------------------
(* The normalizer alone: career_to_table on any mapping of the stats call *)

\* values found where a statistic is looked up
LeafValues ==
  {Num(n) : n \in 0..MaxStat}
    \cup {None, Str(<<"x">>), Str(<<"2">>), Dict(<<>>), List(<<>>)}

GameJson(won, lost) ==
  Dict(<< <<<<"game">>, Dict(<< <<<<"games_won">>, won>>,
                               <<<<"games_lost">>, lost>> >>)>> >>)

\* values found under a hero key
HeroValues ==
  {None, Num(5), List(<<>>), Dict(<<>>),
   Dict(<< <<<<"game">>, Num(1)>> >>),
   Dict(<< <<<<"combat">>, Dict(<< <<<<"deaths">>, Num(1)>> >>)>> >>)}
    \cup {GameJson(won, lost) : won, lost \in LeafValues}

FewHeroValues == {None, GameJson(Num(0), Num(0)), GameJson(Num(1), Str(<<"2">>))}

HeroKeys == << <<"mercy">>, AllHeroes, <<"ana">>, <<"kiriko">> >>

\* the mappings of n heroes: any value under the first key, a few under the others
CareersOf(n) ==
  {Dict([i \in 1..n |-> <<HeroKeys[i], hs[i]>>]) :
     hs \in {f \in [1..n -> HeroValues] : \A i \in 2..n : f[i] \in FewHeroValues}}

NormInputs == UNION {CareersOf(n) : n \in 0..MaxHeroes}

\* the stats call has returned a mapping
NormInit ==
  /\ \E j \in NormInputs :
       call = overfast_get(NewCall(StatsPath(<<"A">>), DefaultMaxRetries),
                           <<Answer(FALSE, 200, None, TRUE, j)>>)
  /\ file = NoFile
  /\ AppInit(OneSession)

\* line 199, and the table kept as line 202 keeps it
Normalize ==
  /\ last = NoReport
  /\ session' = [session EXCEPT ![1].table = career_to_table(call.body)]
  /\ last' = Report(1, "normalized", Len(call.requests))
  /\ UNCHANGED <<call, file, now, run, committed>>

NormSpec == NormInit /\ [][Normalize]_vars

----------------------------------------------------------------------------
(* The client alone: a call with any budget against any transport *)

GetInit ==
  /\ \E p \in Paths, m \in 0..MaxBudget : call = NewCall(p, m)
  /\ file = NoFile
  /\ AppInit(OneSession)

GetRequest ==
  /\ call.state = "loop"
  /\ LoopContinues(call)
  /\ \E ans \in AnswersWith(ProbeBodies) : call' = Iterate(call, ans)
  /\ UNCHANGED appVars

GetGiveUp ==
  /\ call.state = "loop"
  /\ ~LoopContinues(call)
  /\ call' = GiveUp(call)
  /\ UNCHANGED appVars

GetNext == GetRequest \/ GetGiveUp

GetSpec == GetInit /\ [][GetNext]_vars

GetFairSpec == GetSpec /\ WF_vars(GetNext)

----------------------------------------------------------------------------
(* Claims about overfast_get, checked under GetSpec *)

Last(s) == s[Len(s)]

Is429(ans) == ~ans.neterr /\ ans.status = TooManyRequests

\* a success answer: a status that is no error status, with a JSON body
IsSuccessAnswer(ans) == ~ans.neterr /\ ans.status # TooManyRequests
                          /\ IsSuccess(ans.status) /\ ans.json

All429(reqs) == \A i \in 1..Len(reqs) : Is429(reqs[i])

Finished(c) == c.state # "loop"

RECURSIVE Pow2(_)
Pow2(n) == IF n = 0 THEN 1 ELSE 2 * Pow2(n - 1)

\* C1: against a transport that answers 429 k times and then a success, with
\* k < max_retries, the call makes k+1 requests and returns that body; against
\* a transport that always answers 429 it makes exactly max_retries requests,
\* never more, and fails with the rate-limit error that names the URL.
C1_RetryBudget ==
  /\ Len(call.requests) <= call.max_retries
  /\ (Finished(call) /\ All429(call.requests)) =>
        /\ Len(call.requests) = call.max_retries
        /\ call.state = "raised"
        /\ call.error = "RateLimited"
        /\ call.message = <<call.max_retries, call.url>>
  /\ (~Finished(call)) => All429(call.requests)
  /\ (call.requests # <<>> /\ IsSuccessAnswer(Last(call.requests))
        /\ All429(SubSeq(call.requests, 1, Len(call.requests) - 1))) =>
        /\ call.state = "returned"
        /\ call.body = Last(call.requests).body
        /\ Len(call.requests) - 1 < call.max_retries

\* C2: when no answer carries a Retry-After header, the wait after the Nth 429
\* is min(1 * 2^(N-1), 30): 1, 2, 4, 8, 16, 30, 30, ..., never decreasing, and
\* the computed delay never exceeds 30.
NoHint(reqs) == \A i \in 1..Len(reqs) : IsNone(reqs[i].retry_after)

C2_BackoffSequence ==
  /\ call.delay <= DelayCap
  /\ NoHint(call.requests) =>
       /\ \A n \in 1..Len(call.sleeps) :
            call.sleeps[n] = Min(InitialDelay * Pow2(n - 1), DelayCap)
       /\ \A n \in 1..(Len(call.sleeps) - 1) : call.sleeps[n] <= call.sleeps[n + 1]

\* seven hint-less 429 answers: the waits 1, 2, 4, 8, 16, 30, 30
C2_Witness ==
  /\ NoHint(call.requests)
  /\ call.sleeps = <<1, 2, 4, 8, 16, 30, 30>>

\* a header that is a non-negative integer string: decimal digits, at least one
IsNonNegativeInteger(retry_after) ==
  /\ IsStr(retry_after)
  /\ Len(retry_after.str) > 0
  /\ \A i \in 1..Len(retry_after.str) : retry_after.str[i] \in DecimalChars

\* C3: a 429 answer whose Retry-After is a non-negative integer string ("0"
\* too) is followed by a wait of exactly that value; a 429 answer with no such
\* header is followed by a wait of the current computed delay.
C3_RetryAfterPrecedence ==
  [][(Len(call'.requests) = Len(call.requests) + 1 /\ Is429(Last(call'.requests))) =>
       LET h == Last(call'.requests).retry_after IN
       call'.sleeps = Append(call.sleeps,
                             IF IsNonNegativeInteger(h) THEN DecimalNumber(h.str)
                             ELSE call.delay)]_vars

----------------------------------------------------------------------------
(* Claims about the store and the handlers *)

\* the step is a successful save
SaveStep == committed' # committed

\* the frames a save button hands to do_save for session s
FramesToSave(s) ==
  {session[s].table, Filter(session[s].table, "hero", Str(AllHeroes))}

\* C5: with one session the store is purely additive: after every successful
\* save the file holds the rows it held before, unchanged and in their order,
\* followed by the rows just saved in their order.
C5_StoreAdditive ==
  [][SaveStep =>
       \E w \in Widgets, df \in FramesToSave(last'.by) :
         /\ ~IsEmpty(df)
         /\ file'.lines =
              file.lines \o to_csv(df_out_of(df, session[last'.by], w, now)).lines]_vars

RECURSIVE RowsSaved(_)
RowsSaved(saves) == IF saves = <<>> THEN 0 ELSE Head(saves).rows + RowsSaved(Tail(saves))

SavedBy(s) == \E i \in 1..Len(committed) : committed[i].by = s /\ committed[i].rows > 0

\* C6: with two sessions on one file a save rewrites the file from what the
\* saving run loaded: the file then holds as many rows as that load returned
\* plus the rows appended, whatever other sessions saved since the load; so
\* there is an interleaving after which both saves have reported success and
\* the file lacks the rows of one of them.
C6_LastRewriteWins ==
  [][SaveStep =>
       Len(file'.lines) = Len(run[last'.by].snaps.rows) + Last(committed').rows]_vars

\* both sessions have saved rows with success, and the file holds fewer rows
\* than were saved
C6_LostUpdate ==
  /\ SavedBy(1)
  /\ SavedBy(2)
  /\ last.message = "saved"
  /\ Len(file.lines) < RowsSaved(committed)

\* C7: when the file exists and its header is not the 14 expected columns in
\* their order, the load fails (StoreCorrupt) and no save of that run rewrites
\* the file: its contents stay as they were.
C7_ForeignHeaderRefused ==
  [][(file.exists /\ file.header # SNAP_COLUMNS) =>
       (file' = file /\ last'.message # "saved")]_vars

\* C8: ensure_snap_file creates an absent file with exactly the header of the
\* 14 columns and no data row, and leaves an existing file as it is: no step
\* other than a successful save changes an existing file, however many runs
\* call it and whatever has been saved.
C8_EnsureIsNonDestructive ==
  [][/\ (file.exists /\ ~SaveStep) => file' = file
     /\ (~file.exists /\ file' # file) =>
          /\ file'.exists
          /\ file'.lines = <<>>
          /\ file'.header =
               <<"timestamp", "battletag", "player_id", "gamemode", "platform",
                 "hero", "games_played", "games_won", "games_lost",
                 "time_played_sec", "eliminations", "deaths", "hero_damage_done",
                 "healing_done">>]_vars

\* a rerun has just gone through ensure_snap_file with rows in the file
C8_Witness ==
  /\ last.message = "none"
  /\ last.by = 1
  /\ Len(file.lines) >= 2

\* the step is the handler of a save button of session s
SaveHandlerStep(s) == run[s].button \in SaveButtons /\ run'[s].button = "none"

\* C9: a save in a session where no fetch has succeeded yet (its table is
\* empty or it has no player id) is rejected with the warning and leaves the
\* file unchanged, for both save buttons and after failed or throttled fetches.
C9_SaveWithoutFetchRejected ==
  [][\A s \in DOMAIN session :
       (SaveHandlerStep(s)
          /\ (session[s].table.rows = <<>> \/ IsNone(session[s].pid))) =>
       /\ file' = file
       /\ committed' = committed
       /\ last' = Report(s, "fetch_first", 0)]_vars

\* a save was rejected in a session that has tried to fetch and has no player id
C9_Witness ==
  /\ last = Report(1, "fetch_first", 0)
  /\ session[1].last_fetch > 0
  /\ IsNone(session[1].pid)

\* the step is a fetch of session s that failed
FailedFetchStep(s) ==
  /\ last'.by = s
  /\ last'.message = "fetch_failed"
  /\ session'[s].last_fetch # session[s].last_fetch

\* C10: a fetch that fails, in the summary call or in the stats call, leaves
\* the session's summary, table and player id as they were, all three, and
\* writes nothing to the snapshot file.
C10_FailedFetchCommitsNothing ==
  [][\A s \in DOMAIN session :
       FailedFetchStep(s) =>
         /\ session'[s].summary = session[s].summary
         /\ session'[s].table = session[s].table
         /\ session'[s].pid = session[s].pid
         /\ file'.lines = file.lines
         /\ file.exists => file' = file]_vars

\* after a successful fetch, a later fetch got its summary with one request
\* and failed in the stats call when the retry budget of 5 was used up
C10_Witness ==
  /\ last = Report(1, "fetch_failed", 1 + DefaultMaxRetries)
  /\ ~IsNone(session[1].pid)
  /\ ~IsEmpty(session[1].table)

\* the lines a step has added at the end of the file
Appended == SubSeq(file'.lines, Len(file.lines) + 1, Len(file'.lines))

\* the rows of table t whose hero key is "all-heroes", in their order
AggregateRows(t) ==
  LET IsAggregate(row) == Cell(t, row, "hero") = Str(AllHeroes)
  IN SelectSeq(t.rows, IsAggregate)

\* hero and the eight statistics of a table row, as the file spells them
StatCells(t, row) ==
  [i \in 1..9 |-> to_csv_cell(Cell(t, row, SNAP_COLUMNS[5 + i]))]

\* C11: the aggregate-only save appends exactly the rows of the current table
\* whose hero is "all-heroes" (one row for the table all-heroes, ana, mercy),
\* the current-view save appends every row of the current table, and the
\* aggregate-only save of a table with no all-heroes row appends nothing and
\* leaves the file unchanged.
C11_SaveAppendsSelectedRows ==
  [][\A s \in DOMAIN session :
       (SaveHandlerStep(s) /\ session[s].table.rows # <<>> /\ ~IsNone(session[s].pid)) =>
         LET t == session[s].table
             expected == IF run[s].button = "save_all" THEN AggregateRows(t) ELSE t.rows
         IN /\ Len(file'.lines) = Len(file.lines) + Len(expected)
            /\ \A j \in 1..Len(expected) :
                 SubSeq(Appended[j], 6, 14) = StatCells(t, expected[j])
            /\ expected = <<>> => (file' = file /\ committed' = committed)]_vars

\* the table all-heroes, ana, mercy is in the session and the last run saved
\* one row of it, the all-heroes row
C11_Witness ==
  /\ last = Report(1, "saved", 0)
  /\ Len(session[1].table.rows) = 3
  /\ Last(committed).rows = 1
  /\ Last(file.lines)[6] = AllHeroes

\* C12: the rows one save appends all carry the same timestamp, battletag,
\* player_id, gamemode and platform, and each has exactly the 14 schema columns
\* in schema order.
C12_BatchSharesStampAndSchema ==
  [][SaveStep =>
       /\ file'.header =
            <<"timestamp", "battletag", "player_id", "gamemode", "platform",
              "hero", "games_played", "games_won", "games_lost",
              "time_played_sec", "eliminations", "deaths", "hero_damage_done",
              "healing_done">>
       /\ Len(Appended) = Last(committed').rows
       /\ \A j \in 1..Len(Appended) :
            /\ Len(Appended[j]) = 14
            /\ SubSeq(Appended[j], 1, 5) = SubSeq(Appended[1], 1, 5)]_vars

\* the last run saved a batch of three rows
C12_Witness ==
  /\ last = Report(1, "saved", 0)
  /\ Last(committed).rows = 3
  /\ Len(file.lines) >= 3

----------------------------------------------------------------------------
(* Claims about the normalizer, checked under NormSpec *)

Missing == [missing |-> TRUE]

\* what the two keys of a statistic's path lead to in the value h of a hero
PathValue(h, path) ==
  IF ~IsDict(h) \/ path[1] \notin Keys(h) THEN Missing
  ELSE LET g == Lookup(h, path[1]) IN
       IF ~IsDict(g) \/ path[2] \notin Keys(g) THEN Missing
       ELSE Lookup(g, path[2])

\* the table has one row per hero key of the mapping, in the mapping's order
OneRowPerHero(career_json, t) ==
  /\ Len(t.rows) = Len(career_json.dict)
  /\ \A i \in 1..Len(t.rows) : t.rows[i][1] = Str(career_json.dict[i][1])

\* what the claim says stands in the table for what a path leads to
NumberOrAbsent(v) == IF IsNum(v) THEN v ELSE None

\* a string float() accepts, among the strings of the model
SpellsNumber(v) == IsStr(v) /\ (IsDecimalText(v.str) \/ IsFloatText(v.str))

\* what float() makes of what a path leads to, absent where it raises
FloatOrAbsent(v) ==
  IF IsNum(v) THEN v
  ELSE IF SpellsNumber(v)
    THEN Num(IF IsDecimalText(v.str) THEN DecimalNumber(v.str) ELSE FloatTextValue(v.str))
  ELSE None

\* C13 as stated: career_to_table returns for every mapping, with one row per
\* hero key in key order, and a field is numeric exactly when its key path
\* leads to a number, and absent otherwise.
C13_NumericIffNumber ==
  last.message = "normalized" =>
    LET t == session[1].table IN
    /\ OneRowPerHero(call.body, t)
    /\ \A i \in 1..Len(t.rows), p \in 1..Len(STAT_PATHS) :
         t.rows[i][1 + p] = NumberOrAbsent(PathValue(call.body.dict[i][2], STAT_PATHS[p][2]))

\* C13 amended: career_to_table returns for every mapping, with one row per
\* hero key in key order, and a field is numeric exactly when its key path
\* leads to a value float() converts, a number or a string that spells one,
\* and is then that number; otherwise it is absent.
C13_NumericIffFloatConverts ==
  last.message = "normalized" =>
    LET t == session[1].table IN
    /\ OneRowPerHero(call.body, t)
    /\ \A i \in 1..Len(t.rows), p \in 1..Len(STAT_PATHS) :
         t.rows[i][1 + p] = FloatOrAbsent(PathValue(call.body.dict[i][2], STAT_PATHS[p][2]))

\* a mapping of two heroes was normalized: the first with games_won given as
\* the string "2" and games_lost as a list, the second absent altogether
C13_Witness ==
  /\ last.message = "normalized"
  /\ Len(session[1].table.rows) = 2
  /\ call.body.dict[1][2] = GameJson(Str(<<"2">>), List(<<>>))
  /\ IsNone(call.body.dict[2][2])
  /\ session[1].table.rows[1][3] = Num(2)

\* C14: in every row of the table winrate is present exactly when games_won
\* and games_lost are both present with a positive sum, and is then
\* games_won / (games_won + games_lost): absent for 0 and 0, 3/4 for 3 and 1.
C14_Winrate ==
  last.message = "normalized" =>
    LET t == session[1].table IN
    \A i \in 1..Len(t.rows) :
      LET won == Cell(t, t.rows[i], "games_won")
          lost == Cell(t, t.rows[i], "games_lost")
          winrate == Cell(t, t.rows[i], "winrate")
      IN IF IsNum(won) /\ IsNum(lost) /\ won.num + lost.num > 0
           THEN /\ "frac" \in DOMAIN winrate
                /\ winrate.frac[2] > 0
                /\ winrate.frac[1] * (won.num + lost.num) = winrate.frac[2] * won.num
                /\ (won.num = 3 /\ lost.num = 1) => winrate.frac = <<3, 4>>
         ELSE winrate = None

\* a row with 3 games won and 1 lost and the winrate 3/4, followed by a row
\* with 0 and 0 and no winrate
C14_Witness ==
  /\ last.message = "normalized"
  /\ Len(session[1].table.rows) = 2
  /\ SubSeq(session[1].table.rows[1], 3, 4) = <<Num(3), Num(1)>>
  /\ Cell(session[1].table, session[1].table.rows[1], "winrate") = [frac |-> <<3, 4>>]
  /\ SubSeq(session[1].table.rows[2], 3, 4) = <<Num(0), Num(0)>>
  /\ IsNone(Cell(session[1].table, session[1].table.rows[2], "winrate"))

----------------------------------------------------------------------------
(* Claims about the cooldown, the backoff and the identity of stored rows *)

FetchMessages == {"throttled", "enter_battletag", "fetched", "fetch_failed"}

\* the step is a run of session s that the fetch button started
FetchStep(s) ==
  /\ last'.by = s
  /\ last'.message \in FetchMessages
  /\ \/ session'[s].last_fetch # session[s].last_fetch
     \/ (last' # last /\ now' = now)

\* C15: a fetch trigger less than 5 time units after the session's previous
\* trigger that was not throttled is throttled: it makes no request and leaves
\* summary, table, player id and the recorded last-fetch time as they were; a
\* trigger 5 or more time units after it is never throttled.
C15_Cooldown ==
  [][\A s \in DOMAIN session :
       FetchStep(s) =>
         IF now - session[s].last_fetch < 5
           THEN /\ last' = Report(s, "throttled", 0)
                /\ session'[s] = session[s]
         ELSE /\ last'.message # "throttled"
              /\ session'[s].last_fetch = now]_vars

\* a trigger 4 time units after a successful fetch was throttled
C15_Witness ==
  /\ last = Report(1, "throttled", 0)
  /\ now - session[1].last_fetch = 4
  /\ ~IsNone(session[1].pid)

\* the number of 429 answers among the answers
RECURSIVE Count429(_)
Count429(reqs) ==
  IF reqs = <<>> THEN 0
  ELSE (IF Is429(Head(reqs)) THEN 1 ELSE 0) + Count429(Tail(reqs))

\* C16: the computed delay doubles, capped at 30, after every 429 answer,
\* whether its wait came from Retry-After or not: while the call runs the delay
\* after k 429 answers is min(2^k, 30), and a 429 answer with no usable hint
\* waits min(2^k, 30) where k counts all the 429 answers before it.
C16_DelayDoublesAfterEvery429 ==
  /\ call.state = "loop" => call.delay = Min(Pow2(Len(call.requests)), 30)
  /\ \A n \in 1..Len(call.sleeps) :
       ~IsNonNegativeInteger(call.requests[n].retry_after) =>
          call.sleeps[n] = Min(Pow2(n - 1), 30)

\* two 429 answers with the hints "45" and "0", then one without a hint that
\* waited 4
C16_Witness ==
  /\ Len(call.requests) >= 3
  /\ Len(call.sleeps) >= 3
  /\ call.requests[1].retry_after = Str(<<"4", "5">>)
  /\ call.requests[2].retry_after = Str(<<"0">>)
  /\ IsNone(call.requests[3].retry_after)
  /\ SubSeq(call.sleeps, 1, 3) = <<45, 0, 4>>

\* C17: every 429 answer is followed by a sleep before anything else happens,
\* the last of the budget too: when all answers were 429 the sleeps are as many
\* as the requests, max_retries, the failure comes after the last sleep, and
\* with the budget of 5 and no hints the waits are 1, 2, 4, 8, 16.
C17_SleepAfterEvery429 ==
  /\ Len(call.sleeps) = Count429(call.requests)
  /\ (Finished(call) /\ All429(call.requests)) =>
       /\ Len(call.requests) = call.max_retries
       /\ Len(call.sleeps) = call.max_retries
       /\ call.error = "RateLimited"
  /\ (Finished(call) /\ All429(call.requests) /\ NoHint(call.requests)
        /\ call.max_retries = DefaultMaxRetries) =>
       call.sleeps = <<1, 2, 4, 8, 16>>

\* C18: every row of the store describes the player it was fetched for: its
\* player_id is the identifier its battletag gives (blanks trimmed, "#"
\* replaced by "-"), after any fetches, saves and changes of the inputs.
C18_RowIdentityMatchesFetch ==
  \A i \in 1..Len(file.lines) :
    file.lines[i][3] = battletag_to_player_id(file.lines[i][2])

====
